---- MODULE Spec2Model ----
(***************************************************************************)
(* A model of the microos kernel (src/kernel.c, src/kernel.h): the bump    *)
(* page allocator, the two-level SV32 page-table builder, the process      *)
(* table and create_process, the cooperative context switch, the trap      *)
(* entry path and the round-robin yield.                                   *)
(*                                                                         *)
(* All machine words are 32 bits wide; arithmetic is modulo 2^32 as on the *)
(* rv32 target.  Physical memory that holds page tables is modelled page   *)
(* by page; kernel stacks are modelled word by word.                       *)
(***************************************************************************)
EXTENDS Integers, Sequences, FiniteSets, TLC

\* ------------------------------------------------------------------------
\* Machine words.  A uint32_t that holds an address or a byte count is the
\* pair <<hi, lo>> of its bits 31-12 and 11-0, so that every operation
\* keeps the 32-bit width; page-table entries, counts and indices that stay
\* below 2^31 are plain integers.
\* ------------------------------------------------------------------------

HiMod == 1048576
LoMod == 4096

Wd(hi, lo) == <<hi, lo>>
NULL == Wd(0, 0)

\* a + b on uint32_t
Add32(a, b) ==
    LET lo == a[2] + b[2]
    IN  Wd((a[1] + b[1] + lo \div LoMod) % HiMod, lo % LoMod)

\* a - b on uint32_t
Sub32(a, b) ==
    LET lo == a[2] - b[2] + LoMod
    IN  Wd((a[1] - b[1] - (IF lo < LoMod THEN 1 ELSE 0) + 2 * HiMod) % HiMod,
           lo % LoMod)

\* a < b, a <= b on uint32_t
Lt32(a, b) == a[1] < b[1] \/ (a[1] = b[1] /\ a[2] < b[2])
Le32(a, b) == a = b \/ Lt32(a, b)

\* a small integer as a machine word
ToWord(i) == Wd((i \div LoMod) % HiMod, i % LoMod)

RECURSIVE BitOr(_, _)
\* a | b on non-negative integers
BitOr(a, b) ==
    IF a = 0 THEN b
    ELSE IF b = 0 THEN a
    ELSE (IF (a % 2 = 1) \/ (b % 2 = 1) THEN 1 ELSE 0)
         + 2 * BitOr(a \div 2, b \div 2)

RECURSIVE BitAnd(_, _)
\* a & b on non-negative integers
BitAnd(a, b) ==
    IF a = 0 \/ b = 0 THEN 0
    ELSE (IF (a % 2 = 1) /\ (b % 2 = 1) THEN 1 ELSE 0)
         + 2 * BitAnd(a \div 2, b \div 2)

\* a | b on machine words
Or32(a, b) == Wd(BitOr(a[1], b[1]), BitOr(a[2], b[2]))

\* ------------------------------------------------------------------------
\* Constants of kernel.h and of the headers and linker script it relies on
\* ------------------------------------------------------------------------

\* SATP_SV32 is 1u << 31: bit 19 of the high part
SATP_SV32 == Wd(524288, 0)
PAGE_V == 1
PAGE_R == 2
PAGE_W == 4
PAGE_X == 8
PAGE_U == 16

PAGE_SIZE == 4096
STACK_SIZE == 8192
PROC_UNUSED == 0
PROC_RUNNABLE == 1

\* is_aligned(value, PAGE_SIZE) of common.h
is_aligned(value) == value[2] % PAGE_SIZE = 0

\* n * PAGE_SIZE on uint32_t, for a uint32_t n below 2^31
MulPageSize(n) == Wd(n % HiMod, 0)

\* value / PAGE_SIZE on uint32_t
DivPageSize(value) == value[1]

\* Bounds of the model: the size of the process table and the pages of the
\* kernel image; the largest free-RAM region (in pages) the linker script
\* may provide follows from them.
PROCS_MAX == 4
KernelPages == 10
\* One root table and two level-0 tables for each process, and a page more.
MaxRamPages == PROCS_MAX * (1 + 2) + 1
\* The calls a test driver makes.
MaxCalls == 4
\* The largest free RAM, in pages, the map_page driver runs with.
MapRamPages == 4

\* Layout given by the linker script: the kernel image ends, and free RAM
\* starts, on the 4 MiB boundary 0x80400000, so that the identity map of
\* [__kernel_base, __free_ram_end) spans two level-1 slots.
FreeRamPage == 525312
FreeRam == Wd(FreeRamPage, 0)
KernelBase == Wd(FreeRamPage - KernelPages, 0)
\* struct process { int pid; int state; vaddr_t sp; uint32_t *page_table;
\*                  uint8_t stack[STACK_SIZE]; }
SizeofProcess == 16 + STACK_SIZE
\* procs[] lies in .bss, inside the kernel image; below it the image holds
\* one page of text and data.
ProcsBase == Add32(KernelBase, Wd(1, 0))
\* &procs[i]
ProcAddr(i) ==
    IF i >= 0 THEN Add32(ProcsBase, ToWord(i * SizeofProcess))
    ELSE Sub32(ProcsBase, ToWord((0 - i) * SizeofProcess))
\* &procs[i].stack[sizeof(procs[i].stack)]
StackTop(i) == Add32(ProcAddr(i), ToWord(16 + STACK_SIZE))
\* __stack_top: the boot stack, above procs[] at the end of the image
BootStackTop == FreeRam

\* ------------------------------------------------------------------------
\* Physical memory of the free-RAM region, page by page.  A page is
\* [fill |-> w, e |-> f]: every word reads w except those in DOMAIN f.
\* ------------------------------------------------------------------------

\* The modelled pages: physical RAM goes on one page past the largest
\* __free_ram_end.
RamPageNos == FreeRamPage .. (FreeRamPage + MaxRamPages)

EmptyMap == [i \in {} |-> 0]

ZeroPage == [fill |-> 0, e |-> EmptyMap]

\* What uninitialised RAM may hold: words that happen to look like valid
\* page-table entries pointing at the first free page.
GarbageWord == FreeRamPage * 1024 + PAGE_V
GarbagePage == [fill |-> GarbageWord, e |-> EmptyMap]

ReadWord(m, pageno, idx) ==
    IF pageno \notin DOMAIN m THEN 0
    ELSE IF idx \in DOMAIN m[pageno].e THEN m[pageno].e[idx]
    ELSE m[pageno].fill

\* A store to a word of a modelled page; a store elsewhere is not modelled.
WriteWord(m, pageno, idx, w) ==
    IF pageno \notin DOMAIN m THEN m
    ELSE [m EXCEPT ![pageno].e =
            [i \in (DOMAIN m[pageno].e) \cup {idx} |->
                IF i = idx THEN w ELSE m[pageno].e[i]]]

PageIsZero(m, pageno) ==
    /\ pageno \in DOMAIN m
    /\ m[pageno].fill = 0
    /\ \A i \in DOMAIN m[pageno].e : m[pageno].e[i] = 0

\* memset((void *)paddr, 0, len): the pages of [paddr, paddr + len), for
\* page-aligned paddr and len; the range does not wrap around 2^32 here
\* unless it leaves the modelled pages first.
memset_zero(m, paddr, len) ==
    [p \in DOMAIN m |->
        IF p >= paddr[1] /\ p < paddr[1] + len[1] THEN ZeroPage ELSE m[p]]

\* ------------------------------------------------------------------------
\* State
\* ------------------------------------------------------------------------

VARIABLES
    free_ram_end,   \* __free_ram_end, fixed by the linker script
    next_paddr,     \* the static next_paddr of alloc_pages
    mem,            \* the pages of free RAM
    procs,          \* struct process procs[PROCS_MAX], without the stacks
    stack,          \* the words of the kernel stacks that have been written
    current_proc,   \* struct process *current_proc
    idle_proc,      \* struct process *idle_proc
    proc_a,         \* struct process *proc_a
    proc_b,         \* struct process *proc_b
    scheduled,      \* the processes that have been current_proc so far
    saved,          \* ra, s0..s11 and sp each switched-out process had at its yield
    regs,           \* the general-purpose registers of the hart
    pc,             \* where the hart executes
    satp,           \* CSR satp
    sscratch,       \* CSR sscratch
    stvec,          \* CSR stvec
    trapcsr,        \* CSRs scause, stval, sepc
    halted,         \* "" or the message of the PANIC that stopped the kernel,
                    \* "control lost" once the hart runs no code of the kernel
    diag,           \* the arguments PANIC printed
    kpc,            \* the statement kernel_main, or the test driver, is at
    log,            \* the calls a driver made so far, with what each returned
    mapped          \* what the map_page driver mapped last at each address

memvars == <<free_ram_end, next_paddr, mem>>
procvars == <<procs, stack, current_proc, idle_proc, proc_a, proc_b, scheduled,
              saved>>
cpuvars == <<regs, pc, satp, sscratch, stvec, trapcsr>>
vars == <<free_ram_end, next_paddr, mem, procs, stack, current_proc,
          idle_proc, proc_a, proc_b, scheduled, saved, regs, pc, satp,
          sscratch, stvec, trapcsr, halted, diag,
          kpc, log, mapped>>

\* ------------------------------------------------------------------------
\* alloc_pages
\* ------------------------------------------------------------------------

\* The memory the C functions work on, as a record: next_paddr, mem, procs
\* and stack as in the variables, ram_end for __free_ram_end, and panic,
\* diag, ret for the outcome of a call.  panic is the message of the PANIC
\* that has been hit ("" for none) and diag the values it printed; a PANIC
\* never returns, so nothing that follows it in the caller takes effect.
\* ret is the value returned.
KState(np, m, re, ps, st) ==
    [next_paddr |-> np, mem |-> m, ram_end |-> re, procs |-> ps,
     stack |-> st, panic |-> "", diag |-> <<>>, ret |-> NULL]

\* alloc_pages with the memset left out
alloc_pages_nozero(a, n) ==
    IF a.panic # "" THEN a
    ELSE LET paddr == a.next_paddr
             np == Add32(a.next_paddr, MulPageSize(n))
         IN  IF Lt32(a.ram_end, np)
             THEN [a EXCEPT !.next_paddr = np, !.panic = "Out of Memory"]
             ELSE [a EXCEPT !.next_paddr = np, !.ret = paddr]

\* paddr_t alloc_pages(uint32_t n)
alloc_pages(a, n) ==
    IF a.panic # "" THEN a
    ELSE LET paddr == a.next_paddr
             np == Add32(a.next_paddr, MulPageSize(n))
         IN  IF Lt32(a.ram_end, np)
             THEN [a EXCEPT !.next_paddr = np, !.panic = "Out of Memory"]
             ELSE [a EXCEPT !.next_paddr = np,
                            !.mem = memset_zero(a.mem, paddr, MulPageSize(n)),
                            !.ret = paddr]

\* ------------------------------------------------------------------------
\* map_page
\* ------------------------------------------------------------------------

\* (vaddr >> 22) & 0x3ff and (vaddr >> 12) & 0x3ff
VPN1(vaddr) == (vaddr[1] \div 1024) % 1024
VPN0(vaddr) == vaddr[1] % 1024

\* The page number of (uint32_t *)((pte >> 10) * PAGE_SIZE), on uint32_t
TablePage(pte) == (pte \div 1024) % HiMod

\* ((paddr / PAGE_SIZE) << 10) | flags
MakePte(paddr, flags) == BitOr(DivPageSize(paddr) * 1024, flags)

\* map_page that rounds an unaligned address down instead of failing
map_page_truncating(a, table1, vaddr, paddr, flags) ==
    IF a.panic # "" THEN a
    ELSE LET vpn1 == VPN1(vaddr)
             a1 == IF BitAnd(ReadWord(a.mem, table1[1], vpn1), PAGE_V) = 0
                   THEN LET r == alloc_pages(a, 1)
                        IN  IF r.panic # "" THEN r
                            ELSE [r EXCEPT !.mem = WriteWord(r.mem, table1[1],
                                     vpn1, BitOr(MakePte(r.ret, 0), PAGE_V))]
                   ELSE a
             table0 == TablePage(ReadWord(a1.mem, table1[1], vpn1))
         IN  IF a1.panic # "" THEN a1
             ELSE [a1 EXCEPT !.mem = WriteWord(a1.mem, table0, VPN0(vaddr),
                                BitOr(MakePte(paddr, flags), PAGE_V))]

\* map_page that indexes the level-0 table with VPN1 instead of VPN0
map_page_wrongindex(a, table1, vaddr, paddr, flags) ==
    IF a.panic # "" THEN a
    ELSE IF ~is_aligned(vaddr)
    THEN [a EXCEPT !.panic = "unaligned vaddr", !.diag = <<vaddr>>]
    ELSE IF ~is_aligned(paddr)
    THEN [a EXCEPT !.panic = "unaligned paddr", !.diag = <<paddr>>]
    ELSE LET vpn1 == VPN1(vaddr)
             a1 == IF BitAnd(ReadWord(a.mem, table1[1], vpn1), PAGE_V) = 0
                   THEN LET r == alloc_pages(a, 1)
                        IN  IF r.panic # "" THEN r
                            ELSE [r EXCEPT !.mem = WriteWord(r.mem, table1[1],
                                     vpn1, BitOr(MakePte(r.ret, 0), PAGE_V))]
                   ELSE a
             table0 == TablePage(ReadWord(a1.mem, table1[1], vpn1))
         IN  IF a1.panic # "" THEN a1
             ELSE [a1 EXCEPT !.mem = WriteWord(a1.mem, table0, vpn1,
                                BitOr(MakePte(paddr, flags), PAGE_V))]

\* map_page that allocates a level-0 table on every call
map_page_alwaysalloc(a, table1, vaddr, paddr, flags) ==
    IF a.panic # "" THEN a
    ELSE IF ~is_aligned(vaddr)
    THEN [a EXCEPT !.panic = "unaligned vaddr", !.diag = <<vaddr>>]
    ELSE IF ~is_aligned(paddr)
    THEN [a EXCEPT !.panic = "unaligned paddr", !.diag = <<paddr>>]
    ELSE LET vpn1 == VPN1(vaddr)
             \* Create the non-existent 2nd level page table.
             a1 == IF BitAnd(ReadWord(a.mem, table1[1], vpn1), PAGE_V) >= 0
                   THEN LET r == alloc_pages(a, 1)
                        IN  IF r.panic # "" THEN r
                            ELSE [r EXCEPT !.mem = WriteWord(r.mem, table1[1],
                                     vpn1, BitOr(MakePte(r.ret, 0), PAGE_V))]
                   ELSE a
             table0 == TablePage(ReadWord(a1.mem, table1[1], vpn1))
         IN  IF a1.panic # "" THEN a1
             ELSE [a1 EXCEPT !.mem = WriteWord(a1.mem, table0, VPN0(vaddr),
                                BitOr(MakePte(paddr, flags), PAGE_V))]

\* void map_page(uint32_t *table1, uint32_t vaddr, paddr_t paddr,
\*               uint32_t flags)
map_page(a, table1, vaddr, paddr, flags) ==
    IF a.panic # "" THEN a
    ELSE IF ~is_aligned(vaddr)
    THEN [a EXCEPT !.panic = "unaligned vaddr", !.diag = <<vaddr>>]
    ELSE IF ~is_aligned(paddr)
    THEN [a EXCEPT !.panic = "unaligned paddr", !.diag = <<paddr>>]
    ELSE LET vpn1 == VPN1(vaddr)
             \* Create the non-existent 2nd level page table.
             a1 == IF BitAnd(ReadWord(a.mem, table1[1], vpn1), PAGE_V) = 0
                   THEN LET r == alloc_pages(a, 1)
                        IN  IF r.panic # "" THEN r
                            ELSE [r EXCEPT !.mem = WriteWord(r.mem, table1[1],
                                     vpn1, BitOr(MakePte(r.ret, 0), PAGE_V))]
                   ELSE a
             table0 == TablePage(ReadWord(a1.mem, table1[1], vpn1))
         IN  IF a1.panic # "" THEN a1
             ELSE [a1 EXCEPT !.mem = WriteWord(a1.mem, table0, VPN0(vaddr),
                                BitOr(MakePte(paddr, flags), PAGE_V))]

\* The leaf entry a table walk from table1 reaches for vaddr, 0 when the
\* level-1 entry is not valid.
Walk(m, table1, vaddr) ==
    LET e1 == ReadWord(m, table1[1], VPN1(vaddr))
    IN  IF BitAnd(e1, PAGE_V) = 0 THEN 0
        ELSE ReadWord(m, TablePage(e1), VPN0(vaddr))

\* ------------------------------------------------------------------------
\* create_process
\* ------------------------------------------------------------------------

SetMin(S) == CHOOSE x \in S : \A y \in S : x <= y

\* The words of the kernel image that have been stored to; the others read
\* as zero (.bss).
LoadWord(st, addr) == IF addr \in DOMAIN st THEN st[addr] ELSE NULL

\* Stores of the words ws[1], ws[2], ... at base, base + 4, ...
StoreWords(st, base, ws) ==
    LET at == {Add32(base, ToWord(4 * (j - 1))) : j \in 1..Len(ws)}
    IN  [x \in (DOMAIN st) \cup at |->
            IF x \in at THEN ws[Sub32(x, base)[2] \div 4 + 1] ELSE st[x]]

RECURSIVE MapKernelPages(_, _, _)
\* for (paddr = __kernel_base; paddr < __free_ram_end; paddr += PAGE_SIZE)
\*   map_page(page_table, paddr, paddr, PAGE_R | PAGE_W | PAGE_X);
MapKernelPages(k, page_table, paddr) ==
    IF k.panic # "" \/ ~Lt32(paddr, k.ram_end) THEN k
    ELSE MapKernelPages(
            map_page(k, page_table, paddr, paddr,
                     BitOr(PAGE_R, BitOr(PAGE_W, PAGE_X))),
            page_table, Add32(paddr, ToWord(PAGE_SIZE)))

\* create_process taking the highest unused slot
create_process_highest(k, entry) ==
    IF k.panic # "" THEN k
    ELSE LET unused == {i \in DOMAIN k.procs : k.procs[i].state = PROC_UNUSED}
         IN  IF unused = {}
             THEN [k EXCEPT !.panic = "No free process slots"]
             ELSE
             LET i == 0 - SetMin({0 - j : j \in unused})
                 \* twelve zero words pushed from the top of the stack, then pc
                 sp == Sub32(StackTop(i), ToWord(13 * 4))
                 k1 == [k EXCEPT !.stack =
                          StoreWords(k.stack, sp,
                                     <<entry>> \o [j \in 1..12 |-> NULL])]
                 k2 == alloc_pages(k1, 1)
                 page_table == k2.ret
                 k3 == MapKernelPages(k2, page_table, KernelBase)
             IN  IF k3.panic # "" THEN k3
                 ELSE [k3 EXCEPT
                         !.procs[i] = [pid |-> i + 1, state |-> PROC_RUNNABLE,
                                       sp |-> sp, page_table |-> page_table],
                         !.ret = ProcAddr(i)]

\* create_process with the entry point above the twelve zero words
create_process_entrylast(k, entry) ==
    IF k.panic # "" THEN k
    ELSE LET unused == {i \in DOMAIN k.procs : k.procs[i].state = PROC_UNUSED}
         IN  IF unused = {}
             THEN [k EXCEPT !.panic = "No free process slots"]
             ELSE
             LET i == SetMin(unused)
                 \* twelve zero words pushed from the top of the stack, then pc
                 sp == Sub32(StackTop(i), ToWord(13 * 4))
                 k1 == [k EXCEPT !.stack =
                          StoreWords(k.stack, sp,
                                     [j \in 1..12 |-> NULL] \o <<entry>>)]
                 k2 == alloc_pages(k1, 1)
                 page_table == k2.ret
                 k3 == MapKernelPages(k2, page_table, KernelBase)
             IN  IF k3.panic # "" THEN k3
                 ELSE [k3 EXCEPT
                         !.procs[i] = [pid |-> i + 1, state |-> PROC_RUNNABLE,
                                       sp |-> sp, page_table |-> page_table],
                         !.ret = ProcAddr(i)]

\* create_process with pid set to the index of the slot
create_process_pidindex(k, entry) ==
    IF k.panic # "" THEN k
    ELSE LET unused == {i \in DOMAIN k.procs : k.procs[i].state = PROC_UNUSED}
         IN  IF unused = {}
             THEN [k EXCEPT !.panic = "No free process slots"]
             ELSE
             LET i == SetMin(unused)
                 \* twelve zero words pushed from the top of the stack, then pc
                 sp == Sub32(StackTop(i), ToWord(13 * 4))
                 k1 == [k EXCEPT !.stack =
                          StoreWords(k.stack, sp,
                                     <<entry>> \o [j \in 1..12 |-> NULL])]
                 k2 == alloc_pages(k1, 1)
                 page_table == k2.ret
                 k3 == MapKernelPages(k2, page_table, KernelBase)
             IN  IF k3.panic # "" THEN k3
                 ELSE [k3 EXCEPT
                         !.procs[i] = [pid |-> i, state |-> PROC_RUNNABLE,
                                       sp |-> sp, page_table |-> page_table],
                         !.ret = ProcAddr(i)]

\* struct process *create_process(uint32_t pc)
create_process(k, entry) ==
    IF k.panic # "" THEN k
    ELSE LET unused == {i \in DOMAIN k.procs : k.procs[i].state = PROC_UNUSED}
         IN  IF unused = {}
             THEN [k EXCEPT !.panic = "No free process slots"]
             ELSE
             LET i == SetMin(unused)
                 \* twelve zero words pushed from the top of the stack, then pc
                 sp == Sub32(StackTop(i), ToWord(13 * 4))
                 k1 == [k EXCEPT !.stack =
                          StoreWords(k.stack, sp,
                                     <<entry>> \o [j \in 1..12 |-> NULL])]
                 k2 == alloc_pages(k1, 1)
                 page_table == k2.ret
                 k3 == MapKernelPages(k2, page_table, KernelBase)
             IN  IF k3.panic # "" THEN k3
                 ELSE [k3 EXCEPT
                         !.procs[i] = [pid |-> i + 1, state |-> PROC_RUNNABLE,
                                       sp |-> sp, page_table |-> page_table],
                         !.ret = ProcAddr(i)]

\* The index i with p = &procs[i]; -1 for &procs[-1]
ProcIndex(p) == CHOOSE i \in (0 - 1)..(PROCS_MAX - 1) : ProcAddr(i) = p

\* ------------------------------------------------------------------------
\* The state kernel_main starts in
\* ------------------------------------------------------------------------

\* The registers kernel_entry saves, in the order of struct trap_frame
\* without its last member sp.
FrameRegs ==
    <<"ra", "gp", "tp", "t0", "t1", "t2", "t3", "t4", "t5", "t6",
      "a0", "a1", "a2", "a3", "a4", "a5", "a6", "a7",
      "s0", "s1", "s2", "s3", "s4", "s5", "s6", "s7", "s8", "s9", "s10", "s11">>
\* The registers switch_context saves, in the order it stores them.
SwitchRegs ==
    <<"ra", "s0", "s1", "s2", "s3", "s4", "s5", "s6", "s7", "s8", "s9", "s10",
      "s11">>
RegNames == {FrameRegs[i] : i \in 1..Len(FrameRegs)} \cup {"sp"}

\* Places in the kernel's text, the first page of the image.
KernelMainAddr == Add32(KernelBase, ToWord(256))
KernelEntryAddr == Add32(KernelBase, ToWord(512))
YieldRetAddr == Add32(KernelBase, ToWord(768))
ProcAEntry == Add32(KernelBase, ToWord(1024))
ProcBEntry == Add32(KernelBase, ToWord(1280))

\* sscratch is not written before the first context switch: it holds what
\* reset or the firmware left, zero or some word.
SscratchReset == {NULL, ProcsBase}

UnusedProc == [pid |-> 0, state |-> PROC_UNUSED, sp |-> NULL, page_table |-> NULL]

\* The free-RAM sizes the linker script may give.
RamEnds == {Add32(FreeRam, MulPageSize(k)) : k \in 1..MaxRamPages}

InitMachine ==
    /\ free_ram_end \in RamEnds
    /\ next_paddr = FreeRam
    /\ mem \in {[p \in RamPageNos |-> GarbagePage], [p \in RamPageNos |-> ZeroPage]}
    /\ procs = [i \in 0..(PROCS_MAX - 1) |-> UnusedProc]
    /\ stack = [a \in {} |-> NULL]
    /\ mapped = [v \in {} |-> NULL]
    /\ current_proc = NULL
    /\ idle_proc = NULL
    /\ proc_a = NULL
    /\ proc_b = NULL
    /\ scheduled = {}
    /\ saved = [p \in {} |-> NULL]
    /\ regs = [r \in RegNames |-> IF r = "sp" THEN BootStackTop ELSE NULL]
    /\ pc = KernelMainAddr
    /\ satp = NULL
    /\ sscratch \in SscratchReset
    /\ stvec = NULL
    /\ trapcsr = [scause |-> NULL, stval |-> NULL, sepc |-> NULL]
    /\ halted = ""
    /\ diag = <<>>
    /\ log = <<>>

\* ------------------------------------------------------------------------
\* switch_context and yield
\* ------------------------------------------------------------------------

\* a % b as C computes it: the quotient is truncated towards zero
CRem(a, b) == IF a >= 0 THEN a % b ELSE 0 - ((0 - a) % b)

SwitchRegSet == {SwitchRegs[j] : j \in 1..Len(SwitchRegs)}
SwitchRegPos(r) == CHOOSE j \in 1..Len(SwitchRegs) : SwitchRegs[j] = r

\* What a read of procs[-1], the memory below the process table, may find.
OobReads ==
    {[pid |-> 0, state |-> PROC_UNUSED, sp |-> NULL, page_table |-> NULL],
     [pid |-> 7, state |-> PROC_RUNNABLE, sp |-> Wd(7, 0), page_table |-> Wd(7, 0)]}

\* procs[idx], for an index inside the table or not
ProcAt(ps, idx, oob) == IF idx \in DOMAIN ps THEN ps[idx] ELSE oob

\* The hart and the memory yield works on, as a record.
HartState ==
    [procs |-> procs, stack |-> stack, regs |-> regs, pc |-> pc, satp |-> satp,
     sscratch |-> sscratch, current_proc |-> current_proc,
     idle_proc |-> idle_proc]

\* switch_context that saves s10 in the word of s11 too
switch_context_alias(h, prev, next, oob) ==
    LET sp1 == Sub32(h.regs["sp"], ToWord(13 * 4))
        stack1 == StoreWords(h.stack, sp1,
                             [j \in 1..13 |->
                                h.regs[SwitchRegs[IF j = 13 THEN 12 ELSE j]]])
        procs1 == [h.procs EXCEPT ![prev].sp = sp1]
        sp2 == ProcAt(procs1, next, oob).sp
        regs2 == [r \in RegNames |->
                    IF r \in SwitchRegSet
                    THEN LoadWord(stack1,
                                  Add32(sp2, ToWord(4 * (SwitchRegPos(r) - 1))))
                    ELSE IF r = "sp" THEN Add32(sp2, ToWord(13 * 4))
                    ELSE h.regs[r]]
    IN  [h EXCEPT !.stack = stack1, !.procs = procs1, !.regs = regs2,
                  !.pc = regs2["ra"]]

\* void switch_context(uint32_t *prev_sp, uint32_t *next_sp), called with
\* &procs[prev].sp and &procs[next].sp
switch_context(h, prev, next, oob) ==
    LET sp1 == Sub32(h.regs["sp"], ToWord(13 * 4))
        stack1 == StoreWords(h.stack, sp1,
                             [j \in 1..13 |-> h.regs[SwitchRegs[j]]])
        procs1 == [h.procs EXCEPT ![prev].sp = sp1]
        sp2 == ProcAt(procs1, next, oob).sp
        regs2 == [r \in RegNames |->
                    IF r \in SwitchRegSet
                    THEN LoadWord(stack1,
                                  Add32(sp2, ToWord(4 * (SwitchRegPos(r) - 1))))
                    ELSE IF r = "sp" THEN Add32(sp2, ToWord(13 * 4))
                    ELSE h.regs[r]]
    IN  [h EXCEPT !.stack = stack1, !.procs = procs1, !.regs = regs2,
                  !.pc = regs2["ra"]]

\* The offsets i of the scan of yield at which the slot read is Runnable
\* with a positive pid.
ScanHits(h, oob) ==
    LET pid == h.procs[ProcIndex(h.current_proc)].pid
    IN  {i \in 0..(PROCS_MAX - 1) :
            LET proc == ProcAt(h.procs, CRem(pid + i, PROCS_MAX), oob)
            IN  proc.state = PROC_RUNNABLE /\ proc.pid > 0}

\* The scan of yield started one slot after pid
NextIndex_afterpid(h, oob) ==
    LET pid == h.procs[ProcIndex(h.current_proc)].pid
        hits == {i \in 0..(PROCS_MAX - 1) :
                    LET proc == ProcAt(h.procs, CRem(pid + 1 + i, PROCS_MAX), oob)
                    IN  proc.state = PROC_RUNNABLE /\ proc.pid > 0}
    IN  IF hits = {} THEN ProcIndex(h.idle_proc)
        ELSE CRem(pid + 1 + SetMin(hits), PROCS_MAX)

\* yield with the break of its scan left out: the last hit is taken
NextIndex_lasthit(h, oob) ==
    LET pid == h.procs[ProcIndex(h.current_proc)].pid
    IN  IF ScanHits(h, oob) = {} THEN ProcIndex(h.idle_proc)
        ELSE CRem(pid + (0 - SetMin({0 - i : i \in ScanHits(h, oob)})),
                  PROCS_MAX)

\* The index of the slot yield takes for next
NextIndex(h, oob) ==
    LET pid == h.procs[ProcIndex(h.current_proc)].pid
    IN  IF ScanHits(h, oob) = {} THEN ProcIndex(h.idle_proc)
        ELSE CRem(pid + SetMin(ScanHits(h, oob)), PROCS_MAX)

\* yield without its test of next == current_proc
yield_selfswitch(h, oob) ==
    LET prev == ProcIndex(h.current_proc)
        next == NextIndex(h, oob)
    IN  switch_context(
            [h EXCEPT !.current_proc = ProcAddr(next),
                      !.satp = Or32(SATP_SV32,
                                 ToWord(DivPageSize(
                                    ProcAt(h.procs, next, oob).page_table))),
                      !.sscratch = StackTop(next)],
            prev, next, oob)

\* yield without its write of sscratch
yield_nosscratch(h, oob) ==
    LET prev == ProcIndex(h.current_proc)
        next == NextIndex(h, oob)
    IN  IF next = prev THEN h
        ELSE switch_context(
                [h EXCEPT !.current_proc = ProcAddr(next),
                          !.satp = Or32(SATP_SV32,
                                     ToWord(DivPageSize(
                                        ProcAt(h.procs, next, oob).page_table)))],
                prev, next, oob)

\* void yield(void), the call of switch_context included
yield(h, oob) ==
    LET prev == ProcIndex(h.current_proc)
        next == NextIndex(h, oob)
    IN  IF next = prev THEN h
        ELSE switch_context(
                [h EXCEPT !.current_proc = ProcAddr(next),
                          !.satp = Or32(SATP_SV32,
                                     ToWord(DivPageSize(
                                        ProcAt(h.procs, next, oob).page_table))),
                          !.sscratch = StackTop(next)],
                prev, next, oob)

\* ------------------------------------------------------------------------
\* kernel_entry and handle_trap
\* ------------------------------------------------------------------------

\* A store of the 31 words of a trap frame below top succeeds when they lie
\* in the kernel image.
FrameFits(top) ==
    /\ Le32(ToWord(4 * 31), top)
    /\ Le32(KernelBase, Sub32(top, ToWord(4 * 31)))
    /\ Le32(top, FreeRam)

\* kernel_entry up to the call of handle_trap, its stores succeeding
SaveFrame(h) ==
    LET sp0 == h.regs["sp"]
        sp2 == Sub32(h.sscratch, ToWord(4 * 31))
        frame == [j \in 1..31 |->
                    IF j <= 30 THEN h.regs[FrameRegs[j]] ELSE sp0]
    IN  [h EXCEPT !.stack = StoreWords(h.stack, sp2, frame),
                  !.sscratch = Add32(sp2, ToWord(4 * 31)),
                  !.regs = [h.regs EXCEPT !["sp"] = sp2, !["a0"] = sp2]]

\* kernel_entry, for a trap taken with the CSRs csr.  When the word in
\* sscratch is no kernel stack the first store faults: the hart takes a
\* store access fault (scause 7) at that store, with sp and sscratch
\* swapped once already, and enters kernel_entry again.
kernel_entry(h, csr) ==
    IF FrameFits(h.sscratch)
    THEN [hart |-> SaveFrame(h), csr |-> csr]
    ELSE LET bad == Sub32(h.sscratch, ToWord(4 * 31))
             h1 == [h EXCEPT !.regs = [h.regs EXCEPT !["sp"] = bad],
                             !.sscratch = h.regs["sp"]]
         IN  [hart |-> SaveFrame(h1),
              csr |-> [scause |-> ToWord(7), stval |-> bad,
                       sepc |-> Add32(KernelEntryAddr, ToWord(8))]]

\* void handle_trap(struct trap_frame *f): the arguments of its PANIC
handle_trap(csr) == <<csr.scause, csr.stval, csr.sepc>>

\* ------------------------------------------------------------------------
\* kernel_main and the processes
\* ------------------------------------------------------------------------

Init ==
    /\ InitMachine
    /\ kpc = "start"

\* memset(__bss, ...); WRITE_CSR(stvec, (uint32_t)kernel_entry);
KM_SetStvec ==
    /\ halted = "" /\ kpc = "start"
    /\ stvec' = KernelEntryAddr
    /\ kpc' = "create_idle"
    /\ UNCHANGED <<memvars, procvars, regs, pc, satp, sscratch, trapcsr,
                   halted, diag, log, mapped>>

\* The variables a call of create_process sets, from its outcome k.
CreateOutcome(k) ==
    /\ next_paddr' = k.next_paddr
    /\ mem' = k.mem
    /\ procs' = k.procs
    /\ stack' = k.stack
    /\ halted' = k.panic
    /\ diag' = k.diag

\* idle_proc = create_process((uint32_t)NULL);
KM_CreateIdle ==
    /\ halted = "" /\ kpc = "create_idle"
    /\ \E k \in {create_process(
                   KState(next_paddr, mem, free_ram_end, procs, stack), NULL)} :
           /\ CreateOutcome(k)
           /\ idle_proc' = k.ret
    /\ kpc' = "set_idle"
    /\ UNCHANGED <<free_ram_end, current_proc, proc_a, proc_b, scheduled, saved,
                   cpuvars, log, mapped>>

\* idle_proc->pid = -1; current_proc = idle_proc;
KM_SetIdle ==
    /\ halted = "" /\ kpc = "set_idle"
    /\ procs' = [procs EXCEPT ![ProcIndex(idle_proc)].pid = 0 - 1]
    /\ current_proc' = idle_proc
    /\ scheduled' = scheduled \cup {idle_proc}
    /\ saved' = saved
    /\ kpc' = "create_a"
    /\ UNCHANGED <<memvars, stack, idle_proc, proc_a, proc_b, cpuvars, halted,
                   diag, log, mapped>>

\* proc_a = create_process((uint32_t)proc_a_entry);
KM_CreateA ==
    /\ halted = "" /\ kpc = "create_a"
    /\ \E k \in {create_process(
                   KState(next_paddr, mem, free_ram_end, procs, stack),
                   ProcAEntry)} :
           /\ CreateOutcome(k)
           /\ proc_a' = k.ret
    /\ kpc' = "create_b"
    /\ UNCHANGED <<free_ram_end, current_proc, idle_proc, proc_b, scheduled, saved,
                   cpuvars, log, mapped>>

\* proc_b = create_process((uint32_t)proc_b_entry);
KM_CreateB ==
    /\ halted = "" /\ kpc = "create_b"
    /\ \E k \in {create_process(
                   KState(next_paddr, mem, free_ram_end, procs, stack),
                   ProcBEntry)} :
           /\ CreateOutcome(k)
           /\ proc_b' = k.ret
    /\ kpc' = "call_proc_a"
    /\ UNCHANGED <<free_ram_end, current_proc, idle_proc, proc_a, scheduled, saved,
                   cpuvars, log, mapped>>

\* proc_a_entry(); called by kernel_main on the boot stack
KM_CallProcA ==
    /\ halted = "" /\ kpc = "call_proc_a"
    /\ pc' = ProcAEntry
    /\ kpc' = "running"
    /\ UNCHANGED <<memvars, procvars, regs, satp, sscratch, stvec, trapcsr,
                   halted, diag, log, mapped>>

\* The register values the code of a process may hold when it calls yield.
RegPatterns == 2
PatternRegs(pat, sp) ==
    [r \in RegNames |->
        IF r = "sp" THEN sp
        ELSE Wd(pat, CHOOSE j \in 1..Len(FrameRegs) : FrameRegs[j] = r)]

\* The body of the loop of proc_a_entry or proc_b_entry up to its call of
\* yield: printf and putchar leave values of their own in the registers.
Run(pat) ==
    /\ halted = "" /\ kpc = "running"
    /\ regs' = PatternRegs(pat, regs["sp"])
    /\ UNCHANGED <<memvars, procvars, pc, satp, sscratch, stvec, trapcsr,
                   halted, diag, kpc, log, mapped>>

\* yield(); called by the code that runs; the call sets ra
Yield(oob) ==
    /\ halted = "" /\ kpc = "running"
    /\ \E h \in {yield([HartState EXCEPT !.regs["ra"] = YieldRetAddr], oob)} :
           /\ procs' = h.procs
           /\ stack' = h.stack
           /\ regs' = h.regs
           /\ pc' = h.pc
           /\ satp' = h.satp
           /\ sscratch' = h.sscratch
           /\ current_proc' = h.current_proc
           /\ scheduled' = scheduled \cup {h.current_proc}
           /\ saved' = IF h.current_proc = current_proc THEN saved
                       ELSE [p \in ((DOMAIN saved) \cup {current_proc})
                                      \ {h.current_proc} |->
                               IF p = current_proc
                               THEN [r \in SwitchRegSet \cup {"sp"} |->
                                       IF r = "ra" THEN YieldRetAddr
                                       ELSE regs[r]]
                               ELSE saved[p]]
           /\ halted' = IF ProcIndex(h.current_proc) \in DOMAIN procs
                        THEN "" ELSE "control lost"
    /\ UNCHANGED <<memvars, idle_proc, proc_a, proc_b, stvec, trapcsr, diag,
                   kpc, log, mapped>>

\* The step Yield(oob).  Every such step satisfies the first conjunct: yield
\* either changes current_proc or returns with the registers of its caller,
\* ra holding the return address of the call; steps of other actions are
\* told apart by it before yield is computed.
YieldCall(oob) ==
    /\ current_proc' # current_proc \/ regs'["ra"] = YieldRetAddr
    /\ Yield(oob)

\* The causes and faulting values of the traps the hart takes.
TrapCauses == {ToWord(2), ToWord(13)}
TrapValues == {NULL, Wd(0, 4)}

\* A trap: the hart sets scause, stval and sepc and jumps to stvec;
\* kernel_entry calls handle_trap, which halts in its PANIC.
Trap(cause, tval) ==
    /\ halted = "" /\ stvec = KernelEntryAddr
    /\ \E e \in {kernel_entry(HartState,
                    [scause |-> cause, stval |-> tval, sepc |-> pc])} :
           /\ stack' = e.hart.stack
           /\ regs' = e.hart.regs
           /\ sscratch' = e.hart.sscratch
           /\ trapcsr' = e.csr
           /\ diag' = handle_trap(e.csr)
    /\ halted' = "unexpected trap"
    /\ log' = Append(log, [op |-> "trap", scause |-> cause, stval |-> tval,
                           sepc |-> pc])
    /\ UNCHANGED <<memvars, procs, current_proc, idle_proc, proc_a, proc_b,
                   scheduled, saved, pc, satp, stvec, kpc, mapped>>

Next ==
    \/ KM_SetStvec
    \/ KM_CreateIdle
    \/ KM_SetIdle
    \/ KM_CreateA
    \/ KM_CreateB
    \/ KM_CallProcA
    \/ \E pat \in 1..RegPatterns : Run(pat)
    \/ \E oob \in OobReads : Yield(oob)
    \/ \E cause \in TrapCauses, tval \in TrapValues : Trap(cause, tval)

Spec == Init /\ [][Next]_vars

\* ------------------------------------------------------------------------
\* The kernel with a test hook that marks a process as not runnable
\* ------------------------------------------------------------------------

\* p->state = PROC_UNUSED, the one state of a slot that is not Runnable
MarkNonRunnable(p) ==
    /\ halted = "" /\ kpc = "running"
    /\ p # NULL
    /\ procs[ProcIndex(p)].state = PROC_RUNNABLE
    /\ procs' = [procs EXCEPT ![ProcIndex(p)].state = PROC_UNUSED]
    /\ UNCHANGED <<memvars, stack, current_proc, idle_proc, proc_a, proc_b,
                   scheduled, saved, cpuvars, halted, diag, kpc, log, mapped>>

NextSched ==
    \/ Next
    \/ \E p \in {proc_a, proc_b} : MarkNonRunnable(p)

\* The hook is of use once the three processes exist: free RAM holds the
\* root and the two level-0 tables of each.
InitSched ==
    /\ Init
    /\ Le32(Add32(FreeRam, MulPageSize(3 * 3)), free_ram_end)

SpecSched == InitSched /\ [][NextSched]_vars

\* ------------------------------------------------------------------------
\* A driver that calls create_process until the table is full
\* ------------------------------------------------------------------------

ProcEntries == {NULL, ProcAEntry}

InitProc ==
    /\ InitMachine
    /\ sscratch = NULL
    /\ kpc = "proc_test"

\* create_process(entry);
CreateCall(entry) ==
    /\ halted = "" /\ kpc = "proc_test"
    /\ Len(log) <= PROCS_MAX
    /\ \E k \in {create_process(
                    KState(next_paddr, mem, free_ram_end, procs, stack), entry)} :
           /\ CreateOutcome(k)
           /\ log' = Append(log, [op |-> "create_process", entry |-> entry,
                                  before |-> next_paddr, procs |-> procs,
                                  stack |-> stack,
                                  returned |-> (k.panic = ""), ret |-> k.ret])
    /\ UNCHANGED <<free_ram_end, current_proc, idle_proc, proc_a, proc_b,
                   scheduled, saved, cpuvars, kpc, mapped>>

\* idle_proc = <the first process created>; idle_proc->pid = -1;
\* current_proc = idle_proc; as kernel_main does
DriverSetIdle ==
    /\ halted = "" /\ kpc = "proc_test"
    /\ Len(log) = 1 /\ idle_proc = NULL
    /\ idle_proc' = log[1].ret
    /\ current_proc' = log[1].ret
    /\ scheduled' = scheduled \cup {log[1].ret}
    /\ saved' = saved
    /\ procs' = [procs EXCEPT ![ProcIndex(log[1].ret)].pid = 0 - 1]
    /\ UNCHANGED <<memvars, stack, proc_a, proc_b, cpuvars, halted, diag, kpc,
                   log, mapped>>

NextProc ==
    \/ \E entry \in ProcEntries : CreateCall(entry)
    \/ DriverSetIdle

SpecProc == InitProc /\ [][NextProc]_vars

\* ------------------------------------------------------------------------
\* A driver that calls alloc_pages
\* ------------------------------------------------------------------------

\* The page counts the driver passes: small ones, and ones whose byte count
\* n * PAGE_SIZE does not fit in 32 bits (2^20 and 2^20 + 1 pages).
AllocSizes == {1, 2, 3, HiMod, HiMod + 1}

InitAlloc ==
    /\ InitMachine
    /\ kpc = "alloc_test"

AllocCall(n) ==
    /\ halted = ""
    /\ Len(log) < MaxCalls
    /\ \E r \in {alloc_pages(KState(next_paddr, mem, free_ram_end, procs, stack), n)} :
           /\ next_paddr' = r.next_paddr
           /\ mem' = r.mem
           /\ halted' = r.panic
           /\ log' = Append(log, [op |-> "alloc_pages", n |-> n,
                                  before |-> next_paddr,
                                  returned |-> (r.panic = ""), ret |-> r.ret])
    /\ UNCHANGED <<free_ram_end, procvars, cpuvars, diag, kpc, mapped>>

NextAlloc == \E n \in AllocSizes : AllocCall(n)

SpecAlloc == InitAlloc /\ [][NextAlloc]_vars

\* The pages paddr .. paddr + n - 1 all exist and read as zero.
RegionZero(m, paddr, n) ==
    /\ paddr[1] + n - 1 \in DOMAIN m
    /\ \A k \in 0..(n - 1) : PageIsZero(m, paddr[1] + k)

\* C2: in any sequence of alloc_pages(n) calls, n >= 1, that return, the
\* first returns the start of free RAM, each later one returns the previous
\* address plus the previous n * PAGE_SIZE, the regions of n pages do not
\* overlap, and the n pages just returned read as zero.
C2_AllocSequence ==
    /\ \A i \in 1..Len(log) : log[i].returned =>
          /\ (i = 1 => log[i].ret = FreeRam)
          /\ (i > 1 => /\ log[i].ret[2] = 0
                       /\ log[i].ret[1] = log[i - 1].ret[1] + log[i - 1].n)
          /\ \A j \in 1..(i - 1) : log[j].ret[1] + log[j].n <= log[i].ret[1]
    /\ (log # <<>> /\ log[Len(log)].returned) =>
          RegionZero(mem, log[Len(log)].ret, log[Len(log)].n)

\* C3: a call returns exactly when its region of n pages ends at or before
\* the end of free RAM; the first that does not fit halts with "Out of
\* Memory", and no call follows it.
C3_AllocExhaustion ==
    \A i \in 1..Len(log) :
        /\ log[i].returned <=> (log[i].before[1] + log[i].n <= free_ram_end[1])
        /\ (~log[i].returned => i = Len(log) /\ halted = "Out of Memory")

\* ------------------------------------------------------------------------
\* A driver that calls map_page on one root table
\* ------------------------------------------------------------------------

\* The root table the driver maps into: the first page alloc_pages returns.
MapRoot == FreeRam

\* Virtual addresses: two pages of one level-1 slot, a page of another
\* slot with the VPN0 of the first, and addresses one byte and 2048 bytes
\* off a page boundary.
MapVaddrs ==
    {KernelBase, Add32(KernelBase, Wd(1, 0)), Add32(KernelBase, Wd(1024, 0)),
     Add32(KernelBase, Wd(0, 1)), Add32(KernelBase, Wd(1, 2048))}
MapPaddrs == {KernelBase, Wd(HiMod - 1, 0), Add32(FreeRam, Wd(0, 1))}
MapFlags == {PAGE_R + PAGE_W + PAGE_X, PAGE_U + PAGE_R}

\* The driver runs with free RAM of 1 .. MapRamPages pages.
InitMap ==
    /\ InitMachine
    /\ Lt32(free_ram_end, Add32(FreeRam, MulPageSize(MapRamPages + 1)))
    /\ sscratch = NULL
    /\ kpc = "map_test"

\* uint32_t *root = (uint32_t *)alloc_pages(1);
MapAllocRoot ==
    /\ halted = ""
    /\ kpc = "map_test"
    /\ \E r \in {alloc_pages(KState(next_paddr, mem, free_ram_end, procs, stack), 1)} :
           /\ next_paddr' = r.next_paddr
           /\ mem' = r.mem
           /\ halted' = r.panic
           /\ diag' = r.diag
    /\ kpc' = "map_calls"
    /\ UNCHANGED <<free_ram_end, procvars, cpuvars, log, mapped>>

\* map_page(root, v, p, f);
MapCall(v, p, f) ==
    /\ halted = ""
    /\ kpc = "map_calls"
    /\ \E r \in {map_page(KState(next_paddr, mem, free_ram_end, procs, stack), MapRoot, v, p, f)} :
           /\ next_paddr' = r.next_paddr
           /\ mem' = r.mem
           /\ halted' = r.panic
           /\ diag' = r.diag
           /\ mapped' =
                IF r.panic # "" THEN mapped
                ELSE [x \in (DOMAIN mapped) \cup {v} |->
                        IF x = v
                        THEN [p |-> p, f |-> f,
                              again |-> (v \in DOMAIN mapped)]
                        ELSE mapped[x]]
    /\ UNCHANGED <<free_ram_end, procvars, cpuvars, kpc, log>>

NextMap ==
    \/ MapAllocRoot
    \/ \E v \in MapVaddrs, p \in MapPaddrs, f \in MapFlags : MapCall(v, p, f)

SpecMap == InitMap /\ [][NextMap]_vars

\* C6: after map_page(root, V, P, F) the walk of root by V's VPN1 and VPN0
\* reaches the leaf (P / PAGE_SIZE) << 10 | F | VALID; mapping V again
\* replaces that leaf by the new P and F only; the leaves of the pages not
\* mapped stay as they were (not valid).
C6_WalkYieldsLastMapping ==
    kpc = "map_calls" =>
        \A v \in {x \in MapVaddrs : is_aligned(x)} :
            Walk(mem, MapRoot, v) =
                IF v \in DOMAIN mapped
                THEN DivPageSize(mapped[v].p) * 1024 + mapped[v].f + PAGE_V
                ELSE 0

\* A page mapped twice, with another page of the same level-0 table and a
\* page of another table mapped too.
C6_Witness ==
    /\ halted = ""
    /\ KernelBase \in DOMAIN mapped /\ mapped[KernelBase].again
    /\ mapped[KernelBase].p = Wd(HiMod - 1, 0)
    /\ Add32(KernelBase, Wd(1, 0)) \in DOMAIN mapped
    /\ Add32(KernelBase, Wd(1024, 0)) \in DOMAIN mapped

\* C7: map_page called with a virtual or a physical address that is not a
\* multiple of the page size halts with the unaligned-address failure that
\* names the address; it writes no table entry and allocates no page.
C7_UnalignedHaltsUnchanged ==
    [][\A v \in MapVaddrs, p \in MapPaddrs, f \in MapFlags :
          (MapCall(v, p, f) /\ (~is_aligned(v) \/ ~is_aligned(p)))
             => /\ halted' = IF ~is_aligned(v) THEN "unaligned vaddr"
                             ELSE "unaligned paddr"
                /\ diag' = <<IF ~is_aligned(v) THEN v ELSE p>>
                /\ mem' = mem
                /\ next_paddr' = next_paddr]_vars

\* The driver has mapped pages and then passed an unaligned address.
C7_Witness ==
    /\ halted \in {"unaligned vaddr", "unaligned paddr"}
    /\ Cardinality(DOMAIN mapped) >= 2

\* ------------------------------------------------------------------------
\* Claims about yield, create_process and the trap path
\* ------------------------------------------------------------------------

Runnable(ps, p) == ps[ProcIndex(p)].state = PROC_RUNNABLE

\* C1: a yield made while A runs switches to B when B is Runnable, one made
\* while B runs switches to A when A is Runnable; no yield selects the idle
\* task while A or B is Runnable; with A and B both marked not runnable the
\* yield of either selects the idle task.
C1_YieldAlternates ==
    [][(\E oob \in OobReads : YieldCall(oob)) =>
          /\ (current_proc = proc_a /\ Runnable(procs, proc_b))
                => current_proc' = proc_b
          /\ (current_proc = proc_b /\ Runnable(procs, proc_a))
                => current_proc' = proc_a
          /\ (Runnable(procs, proc_a) \/ Runnable(procs, proc_b))
                => current_proc' # idle_proc
          /\ (/\ current_proc \in {proc_a, proc_b}
              /\ ~Runnable(procs, proc_a)
              /\ ~Runnable(procs, proc_b))
                => current_proc' = idle_proc]_vars

\* A and B have both run and have both been marked not runnable, and a
\* yield has switched to the idle task.
C1_Witness ==
    /\ halted = "" /\ kpc = "running"
    /\ {proc_a, proc_b} \subseteq scheduled
    /\ ~Runnable(procs, proc_a) /\ ~Runnable(procs, proc_b)
    /\ current_proc = idle_proc
    /\ sscratch = StackTop(ProcIndex(idle_proc))
    /\ pc = YieldRetAddr

\* C4: of PROCS_MAX + 1 calls of create_process the i-th, i <= PROCS_MAX,
\* takes the lowest unused slot, which is slot i - 1, a slot no earlier call
\* returned, and returns it whenever free RAM holds the pages of i page
\* tables; the call after PROCS_MAX returned ones halts with "No free
\* process slots" and leaves the table, the stacks and the allocator as
\* they were.
C4_CreateFillsLowestSlot ==
    \A i \in 1..Len(log) :
        LET c == log[i]
        IN  IF i <= PROCS_MAX
            THEN /\ c.returned =>
                      /\ c.ret = ProcAddr(i - 1)
                      /\ c.procs[i - 1].state = PROC_UNUSED
                      /\ \A j \in 0..(i - 2) : c.procs[j].state # PROC_UNUSED
                      /\ \A j \in 1..(i - 1) : log[j].ret # c.ret
                 /\ ~c.returned => halted = "Out of Memory"
                 /\ FreeRamPage + 3 * i <= free_ram_end[1] => c.returned
            ELSE /\ ~c.returned
                 /\ halted = "No free process slots"
                 /\ procs = c.procs
                 /\ stack = c.stack
                 /\ next_paddr = c.before

\* PROCS_MAX calls have returned and one more has been made.
C4_Witness ==
    /\ Len(log) = PROCS_MAX + 1
    /\ \A i \in 1..PROCS_MAX : log[i].returned
    /\ halted = "No free process slots"

\* The entry point create_process was given for the process p
EntryOf(p) == IF p = proc_a THEN ProcAEntry
              ELSE IF p = proc_b THEN ProcBEntry ELSE NULL

\* The frame at the saved sp of slot i is the one create_process prepares:
\* 13 words that end at the top of the stack, the entry point first.
PreparedFrame(i) ==
    /\ procs[i].sp = Sub32(StackTop(i), ToWord(13 * 4))
    /\ LoadWord(stack, procs[i].sp) = EntryOf(ProcAddr(i))
    /\ \A j \in 1..12 :
          LoadWord(stack, Add32(procs[i].sp, ToWord(4 * j))) = NULL

\* C5: a created process that has never been current holds a frame of
\* exactly 13 words, the entry point at its saved sp and twelve zero words
\* above it; the switch that makes it current for the first time continues at
\* its entry point with s0..s11 zero and sp at the top of its kernel stack.
C5_FirstSwitchEntersAtEntry ==
    [][/\ \A i \in DOMAIN procs :
             (procs'[i].state = PROC_RUNNABLE /\ ProcAddr(i) \notin scheduled')
                => PreparedFrame(i)'
       /\ ((\E oob \in OobReads : Yield(oob))
              /\ current_proc' \notin scheduled
              /\ halted' = "")
            => /\ pc' = EntryOf(current_proc')
               /\ regs'["ra"] = EntryOf(current_proc')
               /\ \A r \in SwitchRegSet \ {"ra"} : regs'[r] = NULL
               /\ regs'["sp"] = StackTop(ProcIndex(current_proc'))]_vars

\* B has just been switched to for the first time, from A.
C5_Witness ==
    /\ halted = ""
    /\ current_proc = proc_b /\ proc_b # NULL
    /\ proc_a \in scheduled
    /\ pc = ProcBEntry
    /\ regs["sp"] = StackTop(ProcIndex(proc_b))

\* C8: any trap ends in the halted state of handle_trap's PANIC, for good,
\* and the diagnostic carries exactly the scause, stval and sepc of that
\* trap.
C8_TrapHaltsWithItsCause ==
    (log # <<>> /\ log[Len(log)].op = "trap") =>
        /\ halted = "unexpected trap"
        /\ diag = <<log[Len(log)].scause, log[Len(log)].stval,
                    log[Len(log)].sepc>>

\* C9: every slot that is not Unused holds pid = index + 1, and
\* create_process returns such a slot, Runnable, with sp at the top of the
\* frame it prepared.
C9_PidIsIndexPlusOne ==
    \A i \in DOMAIN procs :
        procs[i].state # PROC_UNUSED => procs[i].pid = i + 1

\* The slot create_process has just returned: pid = index + 1, Runnable, sp
\* at the lowest word of the prepared frame.
JustCreated(p, entry) ==
    LET i == ProcIndex(p)
    IN  /\ i \in DOMAIN procs
        /\ procs[i].pid = i + 1
        /\ procs[i].state = PROC_RUNNABLE
        /\ procs[i].sp = Sub32(StackTop(i), ToWord(13 * 4))
        /\ LoadWord(stack, procs[i].sp) = entry

\* C9 as the code has it: every slot that is not Unused holds pid =
\* index + 1, but for the slot of the idle task, whose pid kernel_main sets
\* to -1 after create_process returned it; create_process returns a slot
\* with pid = index + 1, Runnable, with sp at the top of the frame it
\* prepared.
C9_PidIsIndexPlusOneButIdle ==
    /\ \A i \in DOMAIN procs :
          procs[i].state # PROC_UNUSED =>
             procs[i].pid = IF ProcAddr(i) = idle_proc /\ kpc # "set_idle"
                            THEN 0 - 1 ELSE i + 1
    /\ halted = "" =>
          /\ kpc = "set_idle" => JustCreated(idle_proc, NULL)
          /\ kpc = "create_b" => JustCreated(proc_a, ProcAEntry)
          /\ kpc = "call_proc_a" => JustCreated(proc_b, ProcBEntry)

\* The three processes of kernel_main exist and the idle task has its pid.
C9_Witness ==
    /\ halted = "" /\ kpc = "call_proc_a"
    /\ procs[ProcIndex(idle_proc)].pid = 0 - 1
    /\ procs[ProcIndex(proc_a)].pid = ProcIndex(proc_a) + 1
    /\ procs[ProcIndex(proc_b)].pid = ProcIndex(proc_b) + 1

\* The page-aligned addresses of the kernel range [__kernel_base,
\* __free_ram_end)
KernelRange ==
    {Wd(pg, 0) : pg \in KernelBase[1]..(free_ram_end[1] - 1)}

\* The pages of the tables a walk of the kernel range from root goes
\* through: root and the level-0 tables.
TablesOf(root) ==
    {root[1]} \cup
    {TablePage(ReadWord(mem, root[1], VPN1(a))) : a \in KernelRange}

\* C10: every Runnable process has a root table of its own, allocated from
\* free RAM, that maps each page of the kernel range to itself with read,
\* write, execute and valid set; no root or level-0 table belongs to two
\* processes; a create_process that halts part-way leaves no Runnable slot
\* of which this fails.
C10_OwnIdentityMappedTable ==
    \A i \in DOMAIN procs : procs[i].state = PROC_RUNNABLE =>
        /\ Le32(FreeRam, procs[i].page_table)
        /\ Lt32(procs[i].page_table, next_paddr)
        /\ is_aligned(procs[i].page_table)
        /\ \A a \in KernelRange :
              Walk(mem, procs[i].page_table, a) =
                 a[1] * 1024 + PAGE_R + PAGE_W + PAGE_X + PAGE_V
        /\ \A j \in DOMAIN procs :
              (j # i /\ procs[j].state = PROC_RUNNABLE) =>
                 TablesOf(procs[i].page_table)
                    \cap TablesOf(procs[j].page_table) = {}

\* A and the idle task are Runnable, and the create_process of B has run out
\* of memory after it allocated pages.
C10_Witness ==
    /\ halted = "Out of Memory" /\ kpc = "call_proc_a"
    /\ procs[0].state = PROC_RUNNABLE /\ procs[1].state = PROC_RUNNABLE
    /\ procs[2].state = PROC_UNUSED
    /\ Lt32(Add32(procs[1].page_table, MulPageSize(4)), next_paddr)

\* C11: a yield whose scan selects the process that is current already (the
\* only Runnable process with a positive pid, or the idle task with no slot
\* selected) changes neither current_proc, satp, sscratch, the process table
\* nor any stack word: switch_context is not called.
C11_SelfYieldIsNoOp ==
    [][\A oob \in OobReads :
          (YieldCall(oob) /\ NextIndex(HartState, oob) = ProcIndex(current_proc))
             => /\ current_proc' = current_proc
                /\ satp' = satp
                /\ sscratch' = sscratch
                /\ procs' = procs
                /\ stack' = stack
                /\ pc' = pc]_vars

\* A, entered at its entry point, has called yield with B not Runnable and
\* is still where it was.
C11_Witness ==
    /\ halted = "" /\ kpc = "running"
    /\ current_proc = proc_a
    /\ ~Runnable(procs, proc_b)
    /\ pc = ProcAEntry
    /\ regs["ra"] = YieldRetAddr

\* The slot a scan of PROCS_MAX slots takes that reads the indices
\* order[0], order[1], ... and stops at the first Runnable slot with a
\* positive pid; the idle task when there is none.
FirstInOrder(order, oob) ==
    LET good(i) == /\ ProcAt(procs, order[i], oob).state = PROC_RUNNABLE
                   /\ ProcAt(procs, order[i], oob).pid > 0
    IN  IF \E i \in DOMAIN order : good(i)
        THEN ProcAddr(order[CHOOSE i \in DOMAIN order :
                                good(i) /\ \A j \in DOMAIN order :
                                              j < i => ~good(j)])
        ELSE idle_proc

\* The pid of the process that is current
CurrentPid == procs[ProcIndex(current_proc)].pid

\* C12: yield scans PROCS_MAX slots in cyclic order from index
\* (current.pid + 1) mod PROCS_MAX and takes the first that is Runnable with
\* a positive pid.
C12_ScanFromPidPlusOne ==
    [][\A oob \in OobReads :
          YieldCall(oob) =>
             current_proc' =
                FirstInOrder([i \in 0..(PROCS_MAX - 1) |->
                                 (CurrentPid + 1 + i) % PROCS_MAX], oob)]_vars

\* C12 as the code has it: the scan reads the indices (current.pid + i) %
\* PROCS_MAX for i = 0 .. PROCS_MAX - 1, % being the remainder of C; it
\* starts at current.pid % PROCS_MAX, the slot after the current one for a
\* process with pid = index + 1, and takes the first slot read that is
\* Runnable with a positive pid, the idle task when there is none.
C12_ScanFromPid ==
    [][\A oob \in OobReads :
          YieldCall(oob) =>
             current_proc' =
                FirstInOrder([i \in 0..(PROCS_MAX - 1) |->
                                 CRem(CurrentPid + i, PROCS_MAX)], oob)]_vars

\* B has yielded and the scan, wrapped around the end of the table, has
\* taken A, which continues after its own yield.
C12_Witness ==
    /\ halted = "" /\ kpc = "running"
    /\ current_proc = proc_a
    /\ proc_b \in scheduled
    /\ pc = YieldRetAddr
    /\ satp = Or32(SATP_SV32,
                   ToWord(DivPageSize(procs[ProcIndex(proc_a)].page_table)))

\* ------------------------------------------------------------------------
\* A kernel that creates the idle task and up to PROCS_MAX - 1 processes,
\* then lets them yield, with the hook that marks a process not runnable
\* ------------------------------------------------------------------------

\* Free RAM holds the page tables of PROCS_MAX processes.
InitTable ==
    /\ InitProc
    /\ Le32(Add32(FreeRam, MulPageSize(3 * PROCS_MAX)), free_ram_end)

\* The processes are created; the code of the idle task calls yield next.
DriverStart ==
    /\ halted = "" /\ kpc = "proc_test"
    /\ idle_proc # NULL /\ Len(log) >= 2
    /\ kpc' = "running"
    /\ log' = <<>>
    /\ UNCHANGED <<memvars, procvars, cpuvars, halted, diag, mapped>>

NextTable ==
    \/ \E entry \in ProcEntries : CreateCall(entry)
    \/ DriverSetIdle
    \/ DriverStart
    \/ \E oob \in OobReads : Yield(oob)
    \/ \E i \in 1..(PROCS_MAX - 1) : MarkNonRunnable(ProcAddr(i))

SpecTable == InitTable /\ [][NextTable]_vars

\* The slots that are Runnable with a positive pid
Candidates == {i \in DOMAIN procs :
                  procs[i].state = PROC_RUNNABLE /\ procs[i].pid > 0}

\* C13: whichever process is current (the idle task with its negative pid
\* included) and whatever the table holds, yield selects the idle task only
\* if no slot, the last one included, is Runnable with pid > 0, and selects
\* one of those slots whenever there is one.  Stated of the yields in which
\* the word read below the table is no Runnable slot, so that what is
\* selected is a slot of the table or the idle task.
C13_IdleOnlyIfNoneRunnable ==
    [][Yield([pid |-> 0, state |-> PROC_UNUSED, sp |-> NULL,
              page_table |-> NULL]) =>
          /\ Candidates # {} => ProcIndex(current_proc') \in Candidates
          /\ current_proc' = idle_proc => Candidates = {}]_vars

\* C14: a yield that switches to another process sets current_proc to it,
\* satp to SATP_SV32 | (its page_table / PAGE_SIZE) and sscratch to the top
\* of its stack, and switch_context then continues with the registers of
\* its saved frame: after the switch satp, sscratch and the code that runs
\* are those of the process in current_proc.
C14_SwitchInstallsNext ==
    [][(/\ current_proc' # current_proc /\ halted' = ""
        /\ \E oob \in OobReads : Yield(oob))
         => LET next == ProcIndex(current_proc')
            IN  /\ procs[next].state = PROC_RUNNABLE
                /\ satp' = Or32(SATP_SV32,
                                ToWord(DivPageSize(procs'[next].page_table)))
                /\ sscratch' = StackTop(next)
                /\ pc' = LoadWord(stack', procs[next].sp)
                /\ regs'["sp"] = Add32(procs[next].sp, ToWord(13 * 4))]_vars

\* B runs again, after its own yield, with its page table and its stack top
\* installed.
C14_Witness ==
    /\ halted = "" /\ kpc = "running"
    /\ current_proc = proc_b /\ proc_b # NULL
    /\ pc = YieldRetAddr
    /\ satp = Or32(SATP_SV32,
                   ToWord(DivPageSize(procs[ProcIndex(proc_b)].page_table)))
    /\ sscratch = StackTop(ProcIndex(proc_b))

\* The top of the kernel stack of the code that runs: the boot stack for
\* kernel_main and what it calls, the stack of the process in current_proc
\* after a switch.
KernelStackTops ==
    {BootStackTop} \cup
    (IF current_proc = NULL THEN {} ELSE {StackTop(ProcIndex(current_proc))})

\* C15: from the write of stvec on, at every point where a trap can be
\* taken, sscratch holds the top of the kernel stack of the code that runs;
\* a trap then leaves the 31-word frame on that stack, with sp at its first
\* word, and sscratch re-armed with the same stack top.
C15_SscratchIsKernelStackTop ==
    /\ (stvec = KernelEntryAddr /\ halted = "") => sscratch \in KernelStackTops
    /\ halted = "unexpected trap" =>
          /\ sscratch \in KernelStackTops
          /\ regs["sp"] = Sub32(sscratch, ToWord(4 * 31))

\* The 13 words below the stack pointer sp
PushedWords(sp) == {Sub32(sp, ToWord(4 * j)) : j \in 1..13}

\* C16: a process that was switched out and is switched back to continues
\* after its own call of switch_context with ra, s0..s11 and sp as they were
\* when it made the call; a switch writes the saved sp of the outgoing
\* process and the 13 words it pushes below the outgoing sp, and nothing
\* else of the stacks or of the saved sp of another process.
C16_SwitchRoundTrip ==
    [][(current_proc' # current_proc /\ \E oob \in OobReads : Yield(oob))
         => /\ current_proc' \in DOMAIN saved =>
                 /\ pc' = YieldRetAddr
                 /\ \A r \in SwitchRegSet \cup {"sp"} :
                       regs'[r] = saved[current_proc'][r]
            /\ \A i \in DOMAIN procs :
                  ProcAddr(i) # current_proc => procs'[i] = procs[i]
            /\ procs'[ProcIndex(current_proc)].sp
                  = Sub32(regs["sp"], ToWord(13 * 4))
            /\ \A a \in DOMAIN stack' :
                  a \notin PushedWords(regs["sp"])
                     => a \in DOMAIN stack /\ stack'[a] = stack[a]]_vars

\* A runs again after its yield with the s11 it had, which is not the one
\* B ran with.
C16_Witness ==
    /\ halted = "" /\ kpc = "running"
    /\ current_proc = proc_a /\ proc_b \in DOMAIN saved
    /\ pc = YieldRetAddr
    /\ regs["s11"] # NULL
    /\ regs["s11"] # saved[proc_b]["s11"]

\* The frontier after the i-th call of the log
FrontierAfter(i) == IF i < Len(log) THEN log[i + 1].before ELSE next_paddr

\* C17: alloc_pages(n), for every n >= 1 of 32 bits, halts or advances the
\* frontier by the whole of n * PAGE_SIZE; while the kernel runs the frontier
\* lies between the start and the end of free RAM, and the n pages of every
\* region returned lie inside free RAM.
C17_AllocStaysInFreeRam ==
    /\ \A i \in 1..Len(log) : log[i].returned =>
          /\ FrontierAfter(i)[1] = log[i].before[1] + log[i].n
          /\ FrontierAfter(i)[2] = log[i].before[2]
          /\ Le32(FreeRam, log[i].ret)
          /\ log[i].ret[1] + log[i].n <= free_ram_end[1]
    /\ halted = "" =>
          Le32(FreeRam, next_paddr) /\ Le32(next_paddr, free_ram_end)

\* C18: map_page takes one page from alloc_pages for a level-0 table exactly
\* when the level-1 entry of the address's VPN1 is not valid, and writes a
\* level-1 entry of that table's page number and the valid bit alone; a valid
\* level-1 entry is kept; so the level-0 tables allocated on one root are as
\* many as the distinct VPN1 values mapped.
C18_LazyLevel0Tables ==
    [][\A v \in MapVaddrs, p \in MapPaddrs, f \in MapFlags :
          (MapCall(v, p, f) /\ is_aligned(v) /\ is_aligned(p))
             => LET e1 == ReadWord(mem, MapRoot[1], VPN1(v))
                    e1n == ReadWord(mem', MapRoot[1], VPN1(v))
                IN  /\ BitAnd(e1, PAGE_V) # 0 =>
                          /\ halted' = ""
                          /\ next_paddr' = next_paddr
                          /\ e1n = e1
                    /\ (BitAnd(e1, PAGE_V) = 0 /\ halted' = "") =>
                          /\ next_paddr' = Add32(next_paddr, ToWord(PAGE_SIZE))
                          /\ e1n = next_paddr[1] * 1024 + PAGE_V
                    /\ (BitAnd(e1, PAGE_V) = 0 /\ halted' # "") =>
                          /\ halted' = "Out of Memory"
                          /\ mem' = mem
                    /\ halted' = "" =>
                          next_paddr'[1] - (MapRoot[1] + 1) =
                             Cardinality({VPN1(x) : x \in DOMAIN mapped'})]_vars

\* Three pages of two level-1 slots are mapped and two level-0 tables have
\* been allocated after the root.
C18_Witness ==
    /\ halted = "" /\ kpc = "map_calls"
    /\ Cardinality(DOMAIN mapped) = 3
    /\ Cardinality({VPN1(x) : x \in DOMAIN mapped}) = 2
    /\ next_paddr = Add32(MapRoot, MulPageSize(3))

\* The indices of procs the scan of yield reads: those up to its first hit,
\* all PROCS_MAX of them when it has none.
IndicesRead(oob) ==
    LET hits == ScanHits(HartState, oob)
        last == IF hits = {} THEN PROCS_MAX - 1 ELSE SetMin(hits)
    IN  {CRem(CurrentPid + i, PROCS_MAX) : i \in 0..last}

\* C19: every index of procs that yield reads lies in 0 .. PROCS_MAX - 1,
\* whichever process is current: the idle task with pid -1 and a process in
\* the last slot with pid PROCS_MAX included.
C19_ScanIndicesInRange ==
    [][\A oob \in OobReads :
          Yield(oob) => IndicesRead(oob) \subseteq 0..(PROCS_MAX - 1)]_vars

\* ------------------------------------------------------------------------
\* The kernel of SpecTable with its processes running: the code of the
\* process that has the CPU runs and calls yield again and again, and no
\* trap is taken
\* ------------------------------------------------------------------------

\* Free RAM is as large as it gets and reads as zero.
InitLive ==
    /\ InitTable
    /\ free_ram_end = Add32(FreeRam, MulPageSize(MaxRamPages))
    /\ mem = [p \in RamPageNos |-> ZeroPage]

\* The steps of SpecTable and the body of the loop of a process
NextLive ==
    \/ CreateCall(ProcAEntry)
    \/ DriverSetIdle
    \/ DriverStart
    \/ \E oob \in OobReads : Yield(oob)
    \/ \E i \in 1..(PROCS_MAX - 1) : MarkNonRunnable(ProcAddr(i))
    \/ Run(1)

\* A call of yield changes the state: the call sets ra, yield takes a slot
\* other than that of current_proc, or a process is scheduled for the first
\* time.  It is ENABLED <<\E oob \in OobReads : Yield(oob)>>_vars, computed
\* from the scan of yield alone.
YieldEnabled ==
    /\ halted = "" /\ kpc = "running"
    /\ \/ regs["ra"] # YieldRetAddr
       \/ current_proc \notin scheduled
       \/ \E oob \in OobReads :
             NextIndex(HartState, oob) # ProcIndex(current_proc)

\* The loops of proc_a_entry and proc_b_entry never end and call yield in
\* every round: the body of the loop is taken when it can be, and so is the
\* call of yield.  The last conjunct is WF_vars(\E oob \in OobReads :
\* Yield(oob)) with its ENABLED written as YieldEnabled.
SpecLive ==
    /\ InitLive
    /\ [][NextLive]_vars
    /\ WF_vars(Run(1))
    /\ \/ []<>(~YieldEnabled)
       \/ []<><<\E oob \in OobReads : Yield(oob)>>_vars

\* C20: when every process that has the CPU calls yield again and neither a
\* trap nor a fatal error occurs, every process that is Runnable with
\* pid > 0 gets the CPU again, whichever process, the idle task at boot
\* included, is current.
C20_RunnableRunsAgain ==
    \A i \in 1..(PROCS_MAX - 1) :
        (/\ kpc = "running" /\ halted = ""
         /\ procs[i].state = PROC_RUNNABLE /\ procs[i].pid > 0)
           ~> (\/ current_proc = ProcAddr(i)
               \/ procs[i].state # PROC_RUNNABLE
               \/ halted # "")

====
